---- MODULE Spec2Model ----
(***************************************************************************)
(* A model of the time-intervals crate (src/src/lib.rs): the validated     *)
(* TimeInterval, the TimeIntervals set built by a stable sort and a merge  *)
(* fold, and the partition-point membership query.                         *)
(*                                                                         *)
(* Time is a two's-complement signed integer, i64 in the crate: the range  *)
(* TimeMin..TimeMax with TimeMin = -TimeMax - 1, closed under wrapping     *)
(* arithmetic.  The model keeps that shape on a short range, so that the   *)
(* smallest and the largest time are values the inputs reach.              *)
(***************************************************************************)
EXTENDS Integers, Sequences, FiniteSets, TLC

\* The largest Time of the model (the stand-in for i64::MAX).
MaxTime == 1
\* Longest Vec<TimeInterval> a caller assembles.
MaxLen == 3
\* Longest slice of raw pairs handed to try_from.
MaxPairs == 3

TimeMax == MaxTime
TimeMin == -TimeMax - 1
Modulus == TimeMax - TimeMin + 1
Time == TimeMin..TimeMax

VARIABLES
    overflowChecks, \* the build's overflow-checks setting (on in debug builds)
    vec,    \* the Vec<TimeInterval> the caller is assembling
    pairs,  \* the slice of raw (start, end) pairs the caller holds
    set,    \* the outcome of constructing a TimeIntervals
    last    \* the most recent call, with its arguments and its result

vars == <<overflowChecks, vec, pairs, set, last>>

Max(a, b) == IF a >= b THEN a ELSE b

\* A faulty TimeInterval::new that also rejects start = end; C4 tells the two
\* apart.
TimeIntervalNewStrict(start, end) ==
    IF start >= end
    THEN [tag |-> "Err"]
    ELSE [tag |-> "Ok", value |-> [start |-> start, end |-> end]]

\* TimeInterval::new: the one validation of the crate.
TimeIntervalNew(start, end) ==
    IF start > end
    THEN [tag |-> "Err"]
    ELSE [tag |-> "Ok", value |-> [start |-> start, end |-> end]]

\* `interval.start - 1` on a two's-complement Time: the value a build without
\* overflow checks computes.
WrappingSub1(t) == ((t - 1 - TimeMin) % Modulus) + TimeMin

\* `interval.start - 1` overflows exactly at the smallest Time.
SubOverflows(t) == t - 1 < TimeMin

\* Vec::sort_by_key(|interval| interval.start): a stable sort.  InsertByStart
\* puts x behind every element whose key is <= x's key.
InsertByStart(sorted, x) ==
    LET k == Cardinality({i \in 1..Len(sorted) : sorted[i].start <= x.start})
    IN  SubSeq(sorted, 1, k) \o <<x>> \o SubSeq(sorted, k + 1, Len(sorted))

RECURSIVE SortByStart(_)
SortByStart(v) ==
    IF v = <<>>
    THEN <<>>
    ELSE InsertByStart(SortByStart(SubSeq(v, 1, Len(v) - 1)), v[Len(v)])

\* A faulty merge test that also merges across a gap of one time; C6 tells
\* the two apart.
TouchesAcrossGap(lastEntry, interval) ==
    lastEntry.end + 1 >= WrappingSub1(interval.start)

\* The merge test of the fold: last.end >= interval.start - 1.
Touches(lastEntry, interval) == lastEntry.end >= WrappingSub1(interval.start)

\* A faulty closure that overwrites the end instead of taking the max; C9
\* tells the two apart.
FoldStepOverwrite(acc, interval) ==
    IF acc # <<>>
    THEN IF Touches(acc[Len(acc)], interval)
         THEN [acc EXCEPT ![Len(acc)].end = interval.end]
         ELSE Append(acc, interval)
    ELSE Append(acc, interval)

\* The closure of the fold.
FoldStep(acc, interval) ==
    IF acc # <<>>
    THEN IF Touches(acc[Len(acc)], interval)
         THEN [acc EXCEPT ![Len(acc)].end = Max(@, interval.end)]
         ELSE Append(acc, interval)
    ELSE Append(acc, interval)

RECURSIVE Fold(_)
Fold(v) ==
    IF v = <<>>
    THEN <<>>
    ELSE FoldStep(Fold(SubSeq(v, 1, Len(v) - 1)), v[Len(v)])

\* The fold evaluates `interval.start - 1` for every interval it meets with a
\* non-empty accumulator, which is every interval but the first.
FoldOverflows(sorted) == \E k \in 2..Len(sorted) : SubOverflows(sorted[k].start)

\* TimeIntervals::new.  In a build with overflow checks the overflowing
\* subtraction panics, in a build without them the value wraps.
TimeIntervalsNew(v, checks) ==
    LET sorted == SortByStart(v)
    IN  IF checks /\ FoldOverflows(sorted)
        THEN [tag |-> "Panic"]
        ELSE [tag |-> "Ok", intervals |-> Fold(sorted),
              overflowed |-> FoldOverflows(sorted)]

\* slice::partition_point(pred) with pred = |interval| interval.start <= time:
\* a binary search over the half-open index range [left, right).
RECURSIVE BinarySearch(_, _, _, _)
BinarySearch(intervals, time, left, right) ==
    IF left < right
    THEN LET mid == left + ((right - left) \div 2)
         IN  IF intervals[mid + 1].start <= time
             THEN BinarySearch(intervals, time, mid + 1, right)
             ELSE BinarySearch(intervals, time, left, mid)
    ELSE left

PartitionPoint(intervals, time) == BinarySearch(intervals, time, 0, Len(intervals))

\* TimeIntervals::contains_time.  Rust indexes from 0, so intervals[index - 1]
\* is the index-th element here.
ContainsTime(intervals, time) ==
    IF intervals = <<>>
    THEN FALSE
    ELSE LET index == PartitionPoint(intervals, time)
         IN  index > 0 /\ intervals[index].end >= time

\* A faulty is_empty with the test inverted; C8 tells the two apart.
IsEmptyInverted(intervals) == Len(intervals) # 0

\* TimeIntervals::is_empty.
IsEmpty(intervals) == Len(intervals) = 0

\* The adapter that collect() drives in try_from: it yields the intervals of
\* the pairs up to the first invalid pair and stops there.
RECURSIVE ValidPrefix(_)
ValidPrefix(ps) ==
    IF ps = <<>>
    THEN <<>>
    ELSE LET r == TimeIntervalNew(ps[1][1], ps[1][2])
         IN  IF r.tag = "Ok"
             THEN <<r.value>> \o ValidPrefix(Tail(ps))
             ELSE <<>>

\* TryFrom<&[(Time, Time)]> for TimeIntervals: collect() into a Result builds
\* the set from the valid prefix (FromIterator, so TimeIntervals::new runs),
\* and only then looks whether an invalid pair stopped the iteration.
TryFrom(ps, checks) ==
    LET prefix == ValidPrefix(ps)
        built == TimeIntervalsNew(prefix, checks)
    IN  IF built.tag = "Panic"
        THEN built
        ELSE IF Len(prefix) < Len(ps)
             THEN [tag |-> "Err"]
             ELSE built

None == [tag |-> "None"]
NoCall == [op |-> "none"]

RECURSIVE SeqsUpTo(_, _)
SeqsUpTo(S, n) ==
    IF n = 0
    THEN {<<>>}
    ELSE LET shorter == SeqsUpTo(S, n - 1)
         IN  shorter \cup {Append(s, x) : s \in {q \in shorter : Len(q) = n - 1}, x \in S}

----------------------------------------------------------------------------
\* The caller makes intervals one at a time and pushes them on a Vec, builds a
\* set from the Vec, and queries the set.

Init ==
    /\ overflowChecks \in BOOLEAN
    /\ vec = <<>>
    /\ pairs = <<>>
    /\ set = None
    /\ last = NoCall

\* The caller gives up at the first error, as the `?` of the tests does.
GaveUp == last.op = "TimeInterval::new" /\ last.result.tag = "Err"

\* vec.push(TimeInterval::new(start, end)?);
MakeInterval(start, end) ==
    /\ set = None
    /\ ~GaveUp
    /\ Len(vec) < MaxLen
    /\ LET r == TimeIntervalNew(start, end)
       IN  /\ last' = [op |-> "TimeInterval::new", start |-> start, end |-> end,
                       result |-> r]
           /\ vec' = IF r.tag = "Ok" THEN Append(vec, r.value) ELSE vec
    /\ UNCHANGED <<overflowChecks, pairs, set>>

\* let set = TimeIntervals::new(vec); the Vec is moved into the call.
New ==
    /\ set = None
    /\ ~GaveUp
    /\ set' = TimeIntervalsNew(vec, overflowChecks)
    /\ last' = [op |-> "TimeIntervals::new", intervals |-> vec]
    /\ vec' = <<>>
    /\ UNCHANGED <<overflowChecks, pairs>>

\* let set = TimeIntervals::try_from(pairs);
TryFromPairs ==
    /\ set = None
    /\ set' = TryFrom(pairs, overflowChecks)
    /\ last' = [op |-> "TimeIntervals::try_from", pairs |-> pairs]
    /\ UNCHANGED <<overflowChecks, vec, pairs>>

\* set.contains_time(time)
Query(time) ==
    /\ set.tag = "Ok"
    /\ last' = [op |-> "contains_time", time |-> time,
                result |-> ContainsTime(set.intervals, time)]
    /\ UNCHANGED <<overflowChecks, vec, pairs, set>>

\* set.is_empty()
QueryEmpty ==
    /\ set.tag = "Ok"
    /\ last' = [op |-> "is_empty", result |-> IsEmpty(set.intervals)]
    /\ UNCHANGED <<overflowChecks, vec, pairs, set>>

Next ==
    \/ \E start \in Time, end \in Time : MakeInterval(start, end)
    \/ New
    \/ \E time \in Time : Query(time)
    \/ QueryEmpty

Spec == Init /\ [][Next]_vars

\* The caller holds a slice of raw pairs and builds the set from it.
InitPairs ==
    /\ overflowChecks \in BOOLEAN
    /\ vec = <<>>
    /\ pairs \in SeqsUpTo(Time \X Time, MaxPairs)
    /\ set = None
    /\ last = NoCall

NextPairs ==
    \/ TryFromPairs
    \/ \E time \in Time : Query(time)
    \/ QueryEmpty

SpecPairs == InitPairs /\ [][NextPairs]_vars

----------------------------------------------------------------------------
\* Vocabulary of the properties.

\* The call that just returned is TimeIntervals::new, and S is its argument.
AfterNew == last.op = "TimeIntervals::new"
Built == AfterNew /\ set.tag = "Ok"

\* t lies in the closed interval i.
Within(i, t) == i.start <= t /\ t <= i.end

\* Some interval of the sequence v contains t (a linear scan).
Covers(v, t) == \E k \in 1..Len(v) : Within(v[k], t)

\* Canonical form: ascending by start, consecutive entries neither overlap nor
\* are adjacent (in the integers, not in wrapping arithmetic).
IsCanonical(v) ==
    \A k \in 1..(Len(v) - 1) :
        /\ v[k].start <= v[k + 1].start
        /\ v[k].end < v[k + 1].start - 1

\* The rearrangements of the sequence v.
Rearrangements(v) ==
    {[k \in 1..Len(v) |-> v[p[k]]] : p \in Permutations(1..Len(v))}

\* The accumulator of the fold after its first k steps over v.
AccAfter(v, k) == Fold(SubSeq(SortByStart(v), 1, k))

\* The group of sorted inputs that cuts assigns to output entry j: cuts are
\* the positions of the sorted input that open a new entry.
GroupOf(cuts, n, j) ==
    {i \in 1..n : 1 + Cardinality({c \in cuts : c <= i}) = j}

\* out is sorted cut into Len(out) runs of consecutive inputs, each entry
\* spanning from the smallest start to the largest end of its run.
SpansGroups(sorted, out) ==
    \E cuts \in SUBSET (2..Len(sorted)) :
        /\ Cardinality(cuts) + 1 = Len(out) \/ (sorted = <<>> /\ out = <<>>)
        /\ \A j \in 1..Len(out) :
            LET g == GroupOf(cuts, Len(sorted), j)
            IN  /\ g # {}
                /\ \A i \in g : out[j].start <= sorted[i].start
                /\ \E i \in g : out[j].start = sorted[i].start
                /\ \A i \in g : out[j].end >= sorted[i].end
                /\ \E i \in g : out[j].end = sorted[i].end

----------------------------------------------------------------------------
\* C1: a set built by TimeIntervals::new from the sequence S answers
\* contains_time(t) with true exactly when some interval of S contains t.
C1_QueryMatchesInput ==
    Built => \A t \in Time :
        ContainsTime(set.intervals, t) <=> Covers(last.intervals, t)

\* C2: the sequence stored by TimeIntervals::new is in canonical form: sorted
\* by start, and consecutive entries a, b satisfy a.end < b.start - 1.
C2_StoredIsCanonical == Built => IsCanonical(set.intervals)

\* C3: TimeIntervals::new never fails: it returns a set for every sequence of
\* valid intervals, and `interval.start - 1` never overflows in the fold.
C3_NewNeverOverflows == AfterNew => set.tag = "Ok" /\ ~set.overflowed

\* C4: TimeInterval::new(s, e) succeeds if and only if s <= e, the interval it
\* returns has start = s and end = e, and for s > e it returns the error and
\* no interval.
C4_IntervalValidated ==
    last.op = "TimeInterval::new" =>
        /\ last.result.tag = "Ok" <=> last.start <= last.end
        /\ last.start <= last.end =>
               last.result = [tag |-> "Ok",
                              value |-> [start |-> last.start, end |-> last.end]]
        /\ last.start > last.end => last.result = [tag |-> "Err"]

\* The call failed on a pair with start > end after an earlier call succeeded.
C4_Witness ==
    /\ last.op = "TimeInterval::new"
    /\ last.start > last.end
    /\ last.result.tag = "Err"
    /\ Len(vec) > 0

\* C5: the stored sequence does not depend on the order of the input: every
\* rearrangement of S is built into the same stored sequence as S.
C5_OrderIndependent ==
    Built => \A P \in Rearrangements(last.intervals) :
        LET other == TimeIntervalsNew(P, overflowChecks)
        IN  other.tag = "Ok" /\ other.intervals = set.intervals

\* C6: construction is idempotent: building again from the stored sequence
\* yields the stored sequence, and an input already in canonical form is
\* stored unchanged.
C6_Idempotent ==
    AfterNew =>
        /\ IsCanonical(last.intervals) =>
               set.tag = "Ok" /\ set.intervals = last.intervals
        /\ set.tag = "Ok" =>
               LET again == TimeIntervalsNew(set.intervals, overflowChecks)
               IN  again.tag = "Ok" /\ again.intervals = set.intervals

\* A set was built from an input of two entries already in canonical form.
C6_Witness ==
    /\ Built
    /\ Len(last.intervals) = 2
    /\ IsCanonical(last.intervals)
    /\ Len(set.intervals) = 2

\* C7: TimeIntervals::try_from(pairs) returns an error if and only if some
\* pair has start > end, and for valid pairs it returns what
\* TimeIntervals::new returns for the intervals made from them.
C7_TryFromAllOrNothing ==
    last.op = "TimeIntervals::try_from" =>
        LET invalid == \E k \in 1..Len(pairs) : pairs[k][1] > pairs[k][2]
        IN  /\ set.tag = "Err" <=> invalid
            /\ ~invalid =>
                   set = TimeIntervalsNew(ValidPrefix(pairs), overflowChecks)

\* C8: the set built from the empty sequence is empty and contains no time;
\* a set built from a non-empty sequence is not empty.
C8_EmptyIffNoInput ==
    Built =>
        /\ IsEmpty(set.intervals) <=> last.intervals = <<>>
        /\ last.intervals = <<>> =>
               \A t \in Time : ~ContainsTime(set.intervals, t)

\* A set was built from the empty sequence.
C8_Witness == Built /\ last.intervals = <<>> /\ set.intervals = <<>>

\* C9: a merge leaves the last entry's start alone and sets its end to
\* max(last.end, interval.end): during the fold no entry's start changes and no
\* entry's end decreases, and every stored entry spans from the smallest start
\* to the largest end of the inputs merged into it.
C9_MergeTakesMax ==
    Built =>
        LET S == last.intervals
            sorted == SortByStart(S)
        IN  /\ \A k \in 1..(Len(S) - 1) :
                LET before == AccAfter(S, k)
                    after == AccAfter(S, k + 1)
                    n == Len(before)
                IN  /\ \A j \in 1..n :
                        /\ after[j].start = before[j].start
                        /\ after[j].end >= before[j].end
                    /\ Len(after) = n =>
                           after[n].end = Max(before[n].end, sorted[k + 1].end)
            /\ SpansGroups(sorted, set.intervals)

\* A set of one entry was built from three intervals, the second of which
\* lies inside the first and ends before it.
C9_Witness ==
    /\ Built
    /\ Len(last.intervals) = 3
    /\ Len(set.intervals) = 1
    /\ LET sorted == SortByStart(last.intervals)
       IN  /\ sorted[2].end < sorted[1].end
           /\ sorted[3].end > sorted[1].end

\* C10: contains_time agrees with a linear scan of the stored sequence.
C10_QueryMatchesScan ==
    (last.op = "contains_time" /\ set.tag = "Ok") =>
        last.result = Covers(set.intervals, last.time)

====
